---- MODULE Spec2Model ----
(***************************************************************************)
(* Traffic-detector aggregation (data_preprocessing.py) and the per-road   *)
(* jam classifier script (temp_model_1.py).                                *)
(*                                                                         *)
(* Three specifications share the module:                                  *)
(*   Spec         aggregate_hourly_data, run twice over one file list      *)
(*   SpecTrain    the per-road training loop of temp_model_1.py            *)
(*   SpecPredict  predict_new_data's input prompts                         *)
(* Texts that the code takes apart (period_from, speed, occupancy, volume, *)
(* the user's answers) are sequences of one-character strings, so that     *)
(* split(':'), float() and int() are computed and not assumed.  Numbers    *)
(* are integers: float rounding is outside the model.                      *)
(***************************************************************************)
EXTENDS Integers, Sequences, FiniteSets, TLC

VARIABLES
    \* ---- data_preprocessing.py
    file_list,      \* argument of aggregate_hourly_data
    road_detectors, \* argument of aggregate_hourly_data
    batch_size,     \* argument of aggregate_hourly_data (this run's)
    output_csv,     \* content of the file at output_csv: a sequence of rows
    hourly_data,    \* the aggregate map, in insertion order
    i,              \* loop variable of aggregate_hourly_data
    pc,             \* position in aggregate_hourly_data / process_single_file
    loc,            \* locals of process_single_file
    failed,         \* the except branch of process_single_file was taken
    runs,           \* number of calls of aggregate_hourly_data so far
    \* history of the run, read by the properties only
    map_before,     \* hourly_data when process_single_file was called
    prior_csv,      \* content of output_csv when this run started
    prior_batch,    \* batch_size of the run before this one
    visited,        \* indices of the files handed to process_single_file
    flushes,        \* values of i + 1 at which write_aggregated_data ran
    n_added,        \* readings added to hourly_data in this run
    n_written,      \* sum of count over the entries written in this run
    \* ---- temp_model_1.py, training loop
    road_grouped,   \* the grouped frame: rows [Road, Slot, Average_Speed]
    tpc,            \* position in the script
    road_ix,        \* index into roads of the road being handled
    models,         \* keys of the models / feature_names_dict / scalers dicts
    train_called,   \* roads train_and_evaluate_model was called for
    \* ---- temp_model_1.py, predict_new_data
    feature_names,  \* argument of predict_new_data
    ppc,            \* position in predict_new_data
    weekday,        \* the accepted weekday
    feat_ix,        \* index into feature_names of the feature prompted for
    input_data,     \* the feature vector being built
    rejected        \* answers refused for the feature now prompted for

aggVars == <<file_list, road_detectors, batch_size, output_csv, hourly_data, i,
             pc, loc, failed, runs, map_before, prior_csv, prior_batch,
             visited, flushes, n_added, n_written>>
trainVars == <<road_grouped, tpc, road_ix, models, train_called>>
predVars == <<feature_names, ppc, weekday, feat_ix, input_data, rejected>>
vars == <<aggVars, trainVars, predVars>>

\* ---- bounds
MaxFiles == 3
MaxBatch == 2
MaxRuns == 2

(***************************************************************************)
(* XML lookups.  find(tag) gives no element (Absent), an element without   *)
(* text (NoText: .text is None) or an element with text.                   *)
(***************************************************************************)
Absent == [st |-> "absent", s |-> <<>>]
NoText == [st |-> "none", s |-> <<>>]
Txt(s) == [st |-> "text", s |-> s]

PyNone == "<None>"

\* x.find(tag).text if x.find(tag) is not None else '', for a text field
TextOrEmpty(field) ==
    IF field.st = "absent" THEN ""
    ELSE IF field.st = "none" THEN PyNone
    ELSE field.s

Digits == {"0", "1", "2", "3", "4", "5", "6", "7", "8", "9"}

DigitVal(c) ==
    CASE c = "0" -> 0 [] c = "1" -> 1 [] c = "2" -> 2 [] c = "3" -> 3
      [] c = "4" -> 4 [] c = "5" -> 5 [] c = "6" -> 6 [] c = "7" -> 7
      [] c = "8" -> 8 [] c = "9" -> 9

IsDigits(s) == Len(s) > 0 /\ \A k \in 1..Len(s) : s[k] \in Digits

RECURSIVE DecVal(_)
DecVal(s) ==
    IF Len(s) = 0 THEN 0
    ELSE 10 * DecVal(SubSeq(s, 1, Len(s) - 1)) + DigitVal(s[Len(s)])

\* period_from.split(':')[0]
RECURSIVE SplitHead(_)
SplitHead(s) ==
    IF Len(s) = 0 THEN <<>>
    ELSE IF s[1] = ":" THEN <<>>
    ELSE <<s[1]>> \o SplitHead(Tail(s))

(***************************************************************************)
(* float(text) and int(text) on the texts of the model: decimal digits,    *)
(* with an optional minus sign, and for float() also nan and inf.          *)
(* kind "error" is the ValueError of a text that is no number.             *)
(***************************************************************************)
ParseFloat(s) ==
    IF s = <<"n", "a", "n">> THEN [kind |-> "nan", v |-> 0]
    ELSE IF s = <<"i", "n", "f">> THEN [kind |-> "inf", v |-> 1]
    ELSE IF s = <<"-", "i", "n", "f">> THEN [kind |-> "inf", v |-> -1]
    ELSE IF IsDigits(s) THEN [kind |-> "num", v |-> DecVal(s)]
    ELSE IF Len(s) > 1 /\ s[1] = "-" /\ IsDigits(Tail(s))
        THEN [kind |-> "num", v |-> 0 - DecVal(Tail(s))]
    ELSE [kind |-> "error", v |-> 0]

ParseInt(s) ==
    IF IsDigits(s) THEN [kind |-> "num", v |-> DecVal(s)]
    ELSE IF Len(s) > 1 /\ s[1] = "-" /\ IsDigits(Tail(s))
        THEN [kind |-> "num", v |-> 0 - DecVal(Tail(s))]
    ELSE [kind |-> "error", v |-> 0]

\* float(x.find(tag).text) if x.find(tag) is not None else 0.0
\* float(None) is a TypeError, float('abc') a ValueError: both raise.
\* The aggregator's files hold no nan or inf text.
FloatOrZero(field) ==
    IF field.st = "absent" THEN [raised |-> FALSE, v |-> 0]
    ELSE IF field.st = "none" THEN [raised |-> TRUE, v |-> 0]
    ELSE LET r == ParseFloat(field.s)
         IN  [raised |-> r.kind = "error", v |-> r.v]

\* int(x.find(tag).text) if x.find(tag) is not None else 0
IntOrZero(field) ==
    IF field.st = "absent" THEN [raised |-> FALSE, v |-> 0]
    ELSE IF field.st = "none" THEN [raised |-> TRUE, v |-> 0]
    ELSE LET r == ParseInt(field.s)
         IN  [raised |-> r.kind # "num", v |-> r.v]

(***************************************************************************)
(* The road/detector resolver: the first road, in the registry's order,    *)
(* whose list holds the detector ID.                                       *)
(***************************************************************************)
NoRoad == "<no road>"

InList(x, list) == \E k \in 1..Len(list) : list[k] = x

RECURSIVE ResolveFrom(_, _, _)
ResolveFrom(detector_id, registry, k) ==
    IF k > Len(registry) THEN NoRoad
    ELSE IF InList(detector_id, registry[k].detectors) THEN registry[k].road
    ELSE ResolveFrom(detector_id, registry, k + 1)

\* A resolver that hands an unknown detector to the first road.
ResolveRoadLax(detector_id, registry) ==
    LET r == ResolveFrom(detector_id, registry, 1)
    IN  IF r = NoRoad /\ Len(registry) > 0 THEN registry[1].road ELSE r

ResolveRoad(detector_id, registry) == ResolveFrom(detector_id, registry, 1)

\* "if not road_name": None and the empty string are both falsy
Falsy(road_name) == road_name = NoRoad \/ road_name = ""

(***************************************************************************)
(* The aggregate map: a Python dict, so a sequence of entries in insertion *)
(* order, at most one per key.                                             *)
(***************************************************************************)
HasKey(map, key) == \E k \in 1..Len(map) : map[k].key = key

IndexOfKey(map, key) == CHOOSE k \in 1..Len(map) : map[k].key = key

NewEntry(key) ==
    [key |-> key, total_speed |-> 0, total_occupancy |-> 0,
     total_volume |-> 0, count |-> 0]

\* if key not in hourly_data: hourly_data[key] = {...}
EnsureKey(map, key) ==
    IF HasKey(map, key) THEN map ELSE Append(map, NewEntry(key))

\* the four += of the lane loop
AddReading(map, key, speed, occupancy, volume) ==
    LET m == EnsureKey(map, key)
        k == IndexOfKey(m, key)
    IN  [m EXCEPT ![k] =
            [key |-> key,
             total_speed |-> m[k].total_speed + speed,
             total_occupancy |-> m[k].total_occupancy + occupancy,
             total_volume |-> m[k].total_volume + volume,
             count |-> m[k].count + 1]]

LaneKey(l, lane) ==
    <<l.road_name, TextOrEmpty(lane.lane_id), l.hour, l.direction,
      TextOrEmpty(lane.valid), l.date>>

\* The lane body with the key made before the values are parsed: a value
\* that raises then leaves the new key behind with count 0.
ProcessLaneKeyFirst(map, l, lane) ==
    LET speed == FloatOrZero(lane.speed)
        occupancy == FloatOrZero(lane.occupancy)
        volume == IntOrZero(lane.volume)
        key == LaneKey(l, lane)
    IN  IF speed.raised \/ occupancy.raised \/ volume.raised
        THEN [raised |-> TRUE, map |-> EnsureKey(map, key)]
        ELSE [raised |-> FALSE,
              map |-> AddReading(map, key, speed.v, occupancy.v, volume.v)]

\* The lane body with the "is not None" guards of speed left out.
ProcessLaneNoDefault(map, l, lane) ==
    LET speed == FloatOrZero(lane.speed)
        occupancy == FloatOrZero(lane.occupancy)
        volume == IntOrZero(lane.volume)
    IN  IF lane.speed.st = "absent" \/ speed.raised \/ occupancy.raised
           \/ volume.raised
        THEN [raised |-> TRUE, map |-> map]
        ELSE [raised |-> FALSE,
              map |-> AddReading(map, LaneKey(l, lane), speed.v, occupancy.v,
                                 volume.v)]

\* The body of "for lane in ...": the values are parsed first (and may
\* raise), then the key is made and the reading added.
ProcessLane(map, l, lane) ==
    LET speed == FloatOrZero(lane.speed)
        occupancy == FloatOrZero(lane.occupancy)
        volume == IntOrZero(lane.volume)
    IN  IF speed.raised \/ occupancy.raised \/ volume.raised
        THEN [raised |-> TRUE, map |-> map]
        ELSE [raised |-> FALSE,
              map |-> AddReading(map, LaneKey(l, lane), speed.v, occupancy.v,
                                 volume.v)]

(***************************************************************************)
(* The CSV file: a sequence of rows.                                       *)
(***************************************************************************)
Header ==
    [kind |-> "header",
     cells |-> <<"Road", "Lane", "Hour", "Direction", "Valid", "Date",
                 "Average_Speed", "Average_Occupancy", "Total_Volume">>]

RECURSIVE GCD(_, _)
GCD(a, b) == IF b = 0 THEN a ELSE GCD(b, a % b)

Abs(a) == IF a < 0 THEN 0 - a ELSE a

\* total / count, as the fraction in lowest terms (count > 0)
Quotient(total, count) ==
    LET g == GCD(Abs(total), count)
    IN  <<total \div g, count \div g>>

RowOf(e) ==
    [kind |-> "row", key |-> e.key,
     Average_Speed |-> Quotient(e.total_speed, e.count),
     Average_Occupancy |-> Quotient(e.total_occupancy, e.count),
     Total_Volume |-> e.total_volume]

\* the rows write_aggregated_data appends: the entries in the map's order,
\* up to an entry whose count is 0, where the division raises
RECURSIVE RowsOf(_)
RowsOf(map) ==
    IF Len(map) = 0 \/ map[1].count = 0 THEN <<>>
    ELSE <<RowOf(map[1])>> \o RowsOf(Tail(map))

DivisionRaises(map) == \E k \in 1..Len(map) : map[k].count = 0

\* open(output_csv, mode='a'): what is there stays
OpenAppend(content) == content

\* open(output_csv, mode='w'): what is there is dropped
OpenWrite(content) == <<>>

\* the header is written in append mode
InitCsvAppending(content) == Append(OpenAppend(content), Header)

\* lines 96-98
InitCsv(content) == Append(OpenWrite(content), Header)

\* the flush test without its "last file" half
FlushDueNoLast(n, batch, total) == n % batch = 0

\* line 105, n = i + 1
FlushDue(n, batch, total) == n % batch = 0 \/ n = total

(***************************************************************************)
(* The inputs.  A file is a parsed document, or one ET.parse rejects:      *)
(*   [well_formed, date, periods], period = [period_from, detectors],      *)
(*   detector = [detector_id, direction, lanes],                           *)
(*   lane = [lane_id, speed, occupancy, volume, valid].                    *)
(***************************************************************************)
KTW == "Kwun Tong Road Westbound"
KTE == "Kwun Tong Road Eastbound"

Registry ==
    <<[road |-> KTW, detectors |-> <<"AID07108", "AID07109">>],
      [road |-> KTE, detectors |-> <<"AID07219">>]>>

\* a site without the westbound detectors
RegistryEast == <<[road |-> KTE, detectors |-> <<"AID07219">>]>>

Registries == {Registry, RegistryEast}

Lane(lane_id, speed, occupancy, volume, valid) ==
    [lane_id |-> lane_id, speed |-> speed, occupancy |-> occupancy,
     volume |-> volume, valid |-> valid]

Detector(detector_id, direction, lanes) ==
    [detector_id |-> detector_id, direction |-> direction, lanes |-> lanes]

Period(period_from, detectors) ==
    [period_from |-> period_from, detectors |-> detectors]

Document(date, periods) ==
    [well_formed |-> TRUE, date |-> date, periods |-> periods]

T0815 == Txt(<<"0", "8", ":", "1", "5">>)
T0900 == Txt(<<"0", "9", ":", "0", "0">>)
Day1 == Txt("2025-03-01")

\* one reading: speed 40, occupancy 1, volume 10
FileA ==
    Document(Day1, <<Period(T0815, <<Detector(Txt("AID07108"), Txt("West"),
        <<Lane(Txt("1"), Txt(<<"4", "0">>), Txt(<<"1">>), Txt(<<"1", "0">>),
               Txt("1"))>>)>>)>>)

\* one reading of the same key: speed 60, occupancy 3, volume 20
FileB ==
    Document(Day1, <<Period(T0815, <<Detector(Txt("AID07108"), Txt("West"),
        <<Lane(Txt("1"), Txt(<<"6", "0">>), Txt(<<"3">>), Txt(<<"2", "0">>),
               Txt("1"))>>)>>)>>)

\* not well-formed XML: ET.parse raises
FileMalformed == [well_formed |-> FALSE, date |-> Absent, periods |-> <<>>]

\* a good lane, then a lane whose speed is no number
FilePartial ==
    Document(Day1, <<Period(T0815, <<Detector(Txt("AID07108"), Txt("West"),
        <<Lane(Txt("1"), Txt(<<"5", "0">>), Txt(<<"2">>), Txt(<<"5">>),
               Txt("1")),
          Lane(Txt("2"), Txt(<<"a", "b", "c">>), Txt(<<"2">>), Txt(<<"5">>),
               Txt("1"))>>)>>)>>)

\* an unknown detector (its lane would not parse), an eastbound detector
\* with lanes lacking volume or valid, then a period without period_from
\* whose detector lacks direction, with lanes lacking the other fields
FileMixed ==
    Document(Day1,
      <<Period(T0900,
          <<Detector(Txt("XXX00001"), Txt("North"),
              <<Lane(Txt("1"), Txt(<<"a", "b", "c">>), NoText, Txt(<<"1">>),
                     Txt("1"))>>),
            Detector(Txt("AID07219"), Txt("East"),
              <<Lane(Txt("1"), Txt(<<"3", "0">>), Txt(<<"2">>), Absent,
                     Txt("1")),
                Lane(Txt("1"), Txt(<<"7", "0">>), Txt(<<"4">>), Txt(<<"6">>),
                     Absent)>>)>>),
        Period(Absent,
          <<Detector(Txt("AID07109"), Absent,
              <<Lane(Absent, Absent, Absent, Absent, Absent),
                Lane(Txt("1"), Absent, Txt(<<"5">>), Txt(<<"7">>), Txt("1")),
                Lane(Txt("1"), Txt(<<"2", "0">>), Absent, Txt(<<"7">>),
                     Txt("1")),
                Lane(Absent, Txt(<<"2", "0">>), Txt(<<"5">>), Txt(<<"7">>),
                     Txt("1"))>>)>>)>>)

\* no date; detectors without an ID or with an empty one; a reading; then
\* a period whose period_from element is empty, where split raises
FileSparse ==
    Document(Absent,
      <<Period(T0815,
          <<Detector(Absent, Txt("West"),
              <<Lane(Txt("1"), Txt(<<"9", "0">>), Txt(<<"1">>), Txt(<<"1">>),
                     Txt("1"))>>),
            Detector(NoText, Txt("West"),
              <<Lane(Txt("1"), Txt(<<"9", "0">>), Txt(<<"1">>), Txt(<<"1">>),
                     Txt("1"))>>),
            Detector(Txt("AID07108"), Txt("West"),
              <<Lane(Txt("1"), Txt(<<"4", "5">>), Txt(<<"2">>), Txt(<<"3">>),
                     NoText)>>)>>),
        Period(NoText, <<>>)>>)

FilePool == {FileA, FileB, FileMalformed, FilePartial, FileMixed, FileSparse}

FileLists == UNION {[1..n -> FilePool] : n \in 0..MaxFiles}

NoLocals ==
    [date |-> "", p |-> 0, d |-> 0, l |-> 0, hour |-> <<>>,
     road_name |-> NoRoad, direction |-> ""]

\* what may lie at output_csv before the first run
StaleCsv == <<Header, [kind |-> "row", key |-> <<"stale">>,
                       Average_Speed |-> <<1, 1>>,
                       Average_Occupancy |-> <<1, 1>>, Total_Volume |-> 1]>>

(***************************************************************************)
(* The parts of the script that a specification leaves at rest.            *)
(***************************************************************************)
AggIdle ==
    /\ file_list = <<>> /\ road_detectors = <<>> /\ batch_size = 1
    /\ output_csv = <<>> /\ hourly_data = <<>> /\ i = 0 /\ pc = "off"
    /\ loc = NoLocals /\ failed = FALSE /\ runs = 0 /\ map_before = <<>>
    /\ prior_csv = <<>> /\ prior_batch = 0 /\ visited = <<>>
    /\ flushes = <<>> /\ n_added = 0 /\ n_written = 0

TrainIdle ==
    /\ road_grouped = {} /\ tpc = "off" /\ road_ix = 0 /\ models = {}
    /\ train_called = {}

PredictIdle ==
    /\ feature_names = <<>> /\ ppc = "off" /\ weekday = "" /\ feat_ix = 0
    /\ input_data = <<>> /\ rejected = <<>>

(***************************************************************************)
(* aggregate_hourly_data                                                   *)
(***************************************************************************)
Init ==
    /\ file_list \in FileLists
    /\ road_detectors \in Registries
    /\ batch_size \in 1..MaxBatch
    /\ output_csv \in {<<>>, StaleCsv}
    /\ hourly_data = <<>> /\ i = 0 /\ pc = "idle"
    /\ loc = NoLocals /\ failed = FALSE /\ runs = 0 /\ map_before = <<>>
    /\ prior_csv = <<>> /\ prior_batch = 0 /\ visited = <<>>
    /\ flushes = <<>> /\ n_added = 0 /\ n_written = 0
    /\ TrainIdle /\ PredictIdle

CurrentFile == file_list[i + 1]
CurrentPeriod == CurrentFile.periods[loc.p]
CurrentDetector == CurrentPeriod.detectors[loc.d]
CurrentLane == CurrentDetector.lanes[loc.l]

\* lines 93-98: the map is made, the file is opened with mode 'w' and the
\* header written; then the loop starts (or is empty)
Begin(b) ==
    /\ batch_size' = b
    /\ prior_batch' = IF runs = 0 THEN 0 ELSE batch_size
    /\ prior_csv' = output_csv
    /\ output_csv' = InitCsv(output_csv)
    /\ hourly_data' = <<>>
    /\ i' = 0
    /\ pc' = IF Len(file_list) = 0 THEN "done" ELSE "call"
    /\ runs' = runs + 1
    /\ loc' = NoLocals /\ failed' = FALSE /\ map_before' = <<>>
    /\ visited' = <<>> /\ flushes' = <<>> /\ n_added' = 0 /\ n_written' = 0
    /\ UNCHANGED <<file_list, road_detectors>>

\* the first call
StartRun ==
    /\ pc = "idle"
    /\ Begin(batch_size)
    /\ UNCHANGED <<trainVars, predVars>>

\* a further call over the same files and registry, with the output of the
\* run before in place
Rerun ==
    /\ pc = "done"
    /\ runs < MaxRuns
    /\ \E b \in 1..MaxBatch : Begin(b)
    /\ UNCHANGED <<trainVars, predVars>>

\* line 102 and lines 15-21: the call, ET.parse, and the date
CallFile ==
    /\ pc = "call"
    /\ map_before' = hourly_data
    /\ visited' = Append(visited, i + 1)
    /\ IF CurrentFile.well_formed
       THEN /\ failed' = FALSE
            /\ loc' = [NoLocals EXCEPT !.date = TextOrEmpty(CurrentFile.date),
                                       !.p = 1]
            /\ pc' = "period"
       ELSE /\ failed' = TRUE
            /\ loc' = NoLocals
            /\ pc' = "flushcheck"
    /\ UNCHANGED <<file_list, road_detectors, batch_size, output_csv,
                   hourly_data, i, runs, prior_csv, prior_batch, flushes,
                   n_added, n_written>>
    /\ UNCHANGED <<trainVars, predVars>>

\* lines 24-26: the next period, or the end of the file; split on the None
\* of an empty period_from raises
PeriodStep ==
    /\ pc = "period"
    /\ IF loc.p > Len(CurrentFile.periods)
       THEN /\ pc' = "flushcheck"
            /\ UNCHANGED <<loc, failed>>
       ELSE LET pf == CurrentPeriod.period_from
            IN  IF pf.st = "none"
                THEN /\ failed' = TRUE
                     /\ pc' = "flushcheck"
                     /\ UNCHANGED loc
                ELSE /\ loc' = [loc EXCEPT
                                  !.hour = SplitHead(IF pf.st = "absent"
                                                     THEN <<>> ELSE pf.s),
                                  !.d = 1]
                     /\ pc' = "detector"
                     /\ UNCHANGED failed
    /\ UNCHANGED <<file_list, road_detectors, batch_size, output_csv,
                   hourly_data, i, runs, map_before, prior_csv, prior_batch,
                   visited, flushes, n_added, n_written>>
    /\ UNCHANGED <<trainVars, predVars>>

\* lines 28-42: the next detector of the period; one that resolves to no
\* road is passed over with its lanes
DetectorStep ==
    /\ pc = "detector"
    /\ IF loc.d > Len(CurrentPeriod.detectors)
       THEN /\ loc' = [loc EXCEPT !.p = @ + 1]
            /\ pc' = "period"
       ELSE LET road == ResolveRoad(TextOrEmpty(CurrentDetector.detector_id),
                                    road_detectors)
            IN  IF Falsy(road)
                THEN /\ loc' = [loc EXCEPT !.road_name = road, !.d = @ + 1]
                     /\ pc' = "detector"
                ELSE /\ loc' = [loc EXCEPT
                                  !.road_name = road,
                                  !.direction =
                                      TextOrEmpty(CurrentDetector.direction),
                                  !.l = 1]
                     /\ pc' = "lane"
    /\ UNCHANGED <<file_list, road_detectors, batch_size, output_csv,
                   hourly_data, i, failed, runs, map_before, prior_csv,
                   prior_batch, visited, flushes, n_added, n_written>>
    /\ UNCHANGED <<trainVars, predVars>>

\* lines 45-60: the next lane of the detector
LaneStep ==
    /\ pc = "lane"
    /\ IF loc.l > Len(CurrentDetector.lanes)
       THEN /\ loc' = [loc EXCEPT !.d = @ + 1]
            /\ pc' = "detector"
            /\ UNCHANGED <<hourly_data, failed, n_added>>
       ELSE LET res == ProcessLane(hourly_data, loc, CurrentLane)
            IN  /\ hourly_data' = res.map
                /\ IF res.raised
                   THEN /\ failed' = TRUE
                        /\ pc' = "flushcheck"
                        /\ UNCHANGED <<loc, n_added>>
                   ELSE /\ loc' = [loc EXCEPT !.l = @ + 1]
                        /\ n_added' = n_added + 1
                        /\ UNCHANGED <<pc, failed>>
    /\ UNCHANGED <<file_list, road_detectors, batch_size, output_csv, i, runs,
                   map_before, prior_csv, prior_batch, visited, flushes,
                   n_written>>
    /\ UNCHANGED <<trainVars, predVars>>

RECURSIVE SumCount(_)
SumCount(map) ==
    IF Len(map) = 0 THEN 0 ELSE map[1].count + SumCount(Tail(map))

\* lines 105-107 and 74-80: the rows are appended and the map cleared; a
\* division by a count of 0 would end the run with the exception
Flush ==
    /\ pc = "flushcheck"
    /\ FlushDue(i + 1, batch_size, Len(file_list))
    /\ output_csv' = OpenAppend(output_csv) \o RowsOf(hourly_data)
    /\ flushes' = Append(flushes, i + 1)
    /\ IF DivisionRaises(hourly_data)
       THEN /\ pc' = "crashed"
            /\ UNCHANGED <<hourly_data, n_written>>
       ELSE /\ hourly_data' = <<>>
            /\ n_written' = n_written + SumCount(hourly_data)
            /\ pc' = "progress"
    /\ UNCHANGED <<file_list, road_detectors, batch_size, i, loc, failed, runs,
                   map_before, prior_csv, prior_batch, visited, n_added>>
    /\ UNCHANGED <<trainVars, predVars>>

\* line 105, the test false
SkipFlush ==
    /\ pc = "flushcheck"
    /\ ~FlushDue(i + 1, batch_size, Len(file_list))
    /\ pc' = "progress"
    /\ UNCHANGED <<file_list, road_detectors, batch_size, output_csv,
                   hourly_data, i, loc, failed, runs, map_before, prior_csv,
                   prior_batch, visited, flushes, n_added, n_written>>
    /\ UNCHANGED <<trainVars, predVars>>

\* line 109 and the loop's next turn
Progress ==
    /\ pc = "progress"
    /\ i' = i + 1
    /\ pc' = IF i + 1 < Len(file_list) THEN "call" ELSE "done"
    /\ UNCHANGED <<file_list, road_detectors, batch_size, output_csv,
                   hourly_data, loc, failed, runs, map_before, prior_csv,
                   prior_batch, visited, flushes, n_added, n_written>>
    /\ UNCHANGED <<trainVars, predVars>>

Next ==
    \/ StartRun
    \/ Rerun
    \/ CallFile
    \/ PeriodStep
    \/ DetectorStep
    \/ LaneStep
    \/ Flush
    \/ SkipFlush
    \/ Progress

Spec == Init /\ [][Next]_vars

(***************************************************************************)
(* The input seen as a whole: the readings, under the detectors the        *)
(* registry knows, that a file yields up to the first place where it       *)
(* cannot be read (an empty period_from, a number that is none).           *)
(***************************************************************************)
Known(detector_id, registry) ==
    \E k \in 1..Len(registry) : InList(detector_id, registry[k].detectors)

OwnerOf(detector_id, registry) ==
    LET k == CHOOSE k \in 1..Len(registry) :
                 /\ InList(detector_id, registry[k].detectors)
                 /\ \A j \in 1..(k - 1) :
                        ~InList(detector_id, registry[j].detectors)
    IN  registry[k].road

IsNumberOrAbsent(field) ==
    field.st = "absent" \/ (field.st = "text" /\ IsDigits(field.s))

ValueOrZero(field) == IF field.st = "absent" THEN 0 ELSE DecVal(field.s)

LaneParses(lane) ==
    /\ IsNumberOrAbsent(lane.speed)
    /\ IsNumberOrAbsent(lane.occupancy)
    /\ IsNumberOrAbsent(lane.volume)

DetectorId(det) ==
    IF det.detector_id.st = "text" THEN det.detector_id.s ELSE "<no id>"

KnownDetectors(per, registry) ==
    {d \in 1..Len(per.detectors) :
        Known(DetectorId(per.detectors[d]), registry)}

LanesOfPeriod(per, p, registry) ==
    UNION {{<<p, d, l>> : l \in 1..Len(per.detectors[d].lanes)} :
           d \in KnownDetectors(per, registry)}

\* <<period, detector, lane>> of the lanes of f under known detectors
KnownLanes(f, registry) ==
    UNION {LanesOfPeriod(f.periods[p], p, registry) : p \in 1..Len(f.periods)}

DocBefore(a, b) ==
    \/ a[1] < b[1]
    \/ a[1] = b[1] /\ a[2] < b[2]
    \/ a[1] = b[1] /\ a[2] = b[2] /\ a[3] < b[3]

\* the lanes of f that can be read, none of what precedes them failing
ReadableLanes(f, registry) ==
    IF ~f.well_formed THEN {}
    ELSE {a \in KnownLanes(f, registry) :
            /\ \A p \in 1..a[1] : f.periods[p].period_from.st # "none"
            /\ \A b \in KnownLanes(f, registry) :
                 (b = a \/ DocBefore(b, a)) =>
                     LaneParses(f.periods[b[1]].detectors[b[2]].lanes[b[3]])}

ProcessesCleanly(f, registry) ==
    /\ f.well_formed
    /\ \A p \in 1..Len(f.periods) : f.periods[p].period_from.st # "none"
    /\ \A a \in KnownLanes(f, registry) :
           LaneParses(f.periods[a[1]].detectors[a[2]].lanes[a[3]])

\* <<file, period, detector, lane>> of every reading of the input
InputReadings ==
    UNION {{<<fi, a[1], a[2], a[3]>> :
                a \in ReadableLanes(file_list[fi], road_detectors)} :
           fi \in 1..Len(file_list)}

OrEmpty(field) == IF field.st = "text" THEN field.s
                  ELSE IF field.st = "none" THEN PyNone ELSE ""

HourOf(field) == IF field.st = "text" THEN SplitHead(field.s) ELSE <<>>

KeyAt(ix) ==
    LET f == file_list[ix[1]]
        per == f.periods[ix[2]]
        det == per.detectors[ix[3]]
        lane == det.lanes[ix[4]]
    IN  <<OwnerOf(DetectorId(det), road_detectors), OrEmpty(lane.lane_id),
          HourOf(per.period_from), OrEmpty(det.direction),
          OrEmpty(lane.valid), OrEmpty(f.date)>>

LaneAt(ix) == file_list[ix[1]].periods[ix[2]].detectors[ix[3]].lanes[ix[4]]

RECURSIVE SumOver(_, _)
SumOver(f, S) ==
    IF S = {} THEN 0
    ELSE LET x == CHOOSE x \in S : TRUE
         IN  f[x] + SumOver(f, S \ {x})

DataRows(csv) == {csv[k] : k \in {j \in 1..Len(csv) : csv[j].kind = "row"}}

(***************************************************************************)
(* C1.  Two runs over the same files and registry leave the same aggregate *)
(* rows whatever their batch sizes: after a second run the set of data     *)
(* rows equals that of the run before.                                     *)
(***************************************************************************)
BatchSizeIndependent ==
    (pc = "done" /\ runs >= 2) => DataRows(output_csv) = DataRows(prior_csv)

(***************************************************************************)
(* C2.  When a run has ended, every data row holds the means over all the  *)
(* readings of the whole input that share its key: Average_Speed is their  *)
(* speed sum over their number, Average_Occupancy likewise.                *)
(***************************************************************************)
RowsAreWholeInputMeans ==
    pc = "done" =>
        \A r \in DataRows(output_csv) :
            LET S == {ix \in InputReadings : KeyAt(ix) = r.key}
                n == Cardinality(S)
                speeds == [ix \in S |-> ValueOrZero(LaneAt(ix).speed)]
                occs == [ix \in S |-> ValueOrZero(LaneAt(ix).occupancy)]
            IN  /\ n > 0
                /\ r.Average_Speed = Quotient(SumOver(speeds, S), n)
                /\ r.Average_Occupancy = Quotient(SumOver(occs, S), n)

(***************************************************************************)
(* C3.  A file on which process_single_file fails leaves the aggregate map *)
(* as it was when the call began.                                          *)
(***************************************************************************)
FailedFileLeavesMapUntouched ==
    (pc = "flushcheck" /\ failed) => hourly_data = map_before

(***************************************************************************)
(* C4.  A detector whose ID is in no road's list is passed over: the step  *)
(* changes neither the map nor the output, raises nothing and goes to the  *)
(* next detector, and no lane is ever read under such a detector.          *)
(***************************************************************************)
AtUnknownDetector ==
    /\ pc = "detector"
    /\ loc.d <= Len(CurrentPeriod.detectors)
    /\ ~Known(DetectorId(CurrentDetector), road_detectors)

UnknownDetectorIgnored ==
    /\ [][AtUnknownDetector =>
            /\ hourly_data' = hourly_data
            /\ output_csv' = output_csv
            /\ n_added' = n_added
            /\ failed' = failed
            /\ pc' = "detector"
            /\ loc'.d = loc.d + 1]_vars
    /\ [](pc = "lane" => Known(DetectorId(CurrentDetector), road_detectors))

UnknownDetectorPassed ==
    /\ pc = "detector"
    /\ loc.d > 1
    /\ ~Known(DetectorId(CurrentPeriod.detectors[loc.d - 1]), road_detectors)
    /\ Len(CurrentPeriod.detectors[loc.d - 1].lanes) > 0
    /\ ~failed

(***************************************************************************)
(* C5.  A reading with an absent optional element whose other numbers      *)
(* parse does not raise: the absent field counts as 0.0 / 0 / '', and the  *)
(* entry of its key grows by the reading and by one in count.              *)
(***************************************************************************)
AtLaneWithAbsentField ==
    /\ pc = "lane"
    /\ loc.l <= Len(CurrentDetector.lanes)
    /\ LaneParses(CurrentLane)
    /\ \/ CurrentLane.speed.st = "absent"
       \/ CurrentLane.occupancy.st = "absent"
       \/ CurrentLane.volume.st = "absent"
       \/ CurrentLane.valid.st = "absent"
       \/ CurrentLane.lane_id.st = "absent"
       \/ CurrentDetector.direction.st = "absent"
       \/ CurrentPeriod.period_from.st = "absent"
       \/ CurrentFile.date.st = "absent"

CountOf(map, key) ==
    IF HasKey(map, key) THEN map[IndexOfKey(map, key)]
    ELSE NewEntry(key)

RerunSameOutput ==
    /\ (pc = "done" /\ runs >= 1) =>
          /\ output_csv[1] = Header
          /\ \A k \in 2..Len(output_csv) : output_csv[k].kind = "row"
    /\ (pc = "done" /\ runs >= 2 /\ prior_batch = batch_size) =>
          output_csv = prior_csv

SecondRunDone ==
    /\ pc = "done"
    /\ runs = 2
    /\ prior_batch = batch_size
    /\ Len(output_csv) > 2
    /\ \E k \in 1..Len(file_list) : ~ProcessesCleanly(file_list[k],
                                                       road_detectors)

(***************************************************************************)
(* C9.  Every key of the aggregate map has count > 0, in every state of a  *)
(* run, also after a file that failed part-way.                            *)
(***************************************************************************)
CountsPositive ==
    \A k \in 1..Len(hourly_data) : hourly_data[k].count > 0

FailedPartWay ==
    /\ pc = "flushcheck"
    /\ failed
    /\ hourly_data # map_before

(***************************************************************************)
(* C10.  The files are handed to process_single_file in list order, each   *)
(* once, also past a failing one; the map is written and cleared exactly   *)
(* after the n-th file for n a multiple of batch_size or n the last; it is *)
(* empty right after a flush, holds readings of at most batch_size files,  *)
(* and at the end of a run over a non-empty list it is empty and every     *)
(* reading added has been written.                                         *)
(***************************************************************************)
Decided == IF pc = "progress" THEN i + 1 ELSE i

LastFlush == IF Len(flushes) = 0 THEN 0 ELSE flushes[Len(flushes)]

OrderedBatchedFlush ==
    /\ pc # "crashed"
    /\ \A k \in 1..Len(visited) : visited[k] = k
    /\ Len(visited) = IF pc = "call" \/ pc = "done" \/ pc = "idle" THEN i
                      ELSE i + 1
    /\ pc = "done" => i = Len(file_list)
    /\ \A k \in 1..Len(flushes) :
        /\ flushes[k] \in 1..Decided
        /\ k > 1 => flushes[k - 1] < flushes[k]
    /\ \A n \in 1..Decided :
        (n % batch_size = 0 \/ n = Len(file_list))
            <=> \E k \in 1..Len(flushes) : flushes[k] = n
    /\ (pc = "progress" /\ LastFlush = i + 1) => hourly_data = <<>>
    /\ Len(visited) - LastFlush <= batch_size
    /\ (Len(visited) = LastFlush) => hourly_data = <<>>
    /\ (pc = "done" /\ runs >= 1) =>
        /\ hourly_data = <<>>
        /\ n_written = n_added

BatchedRunDone ==
    /\ pc = "done"
    /\ Len(file_list) = 3
    /\ batch_size = 2
    /\ flushes = <<2, 3>>
    /\ ~ProcessesCleanly(file_list[2], road_detectors)
    /\ n_written > 0

(***************************************************************************)
(* temp_model_1.py: the frame road_grouped, prepare_data_for_road and the  *)
(* training loop.  A slot stands for one (Date, Hour, Weekday).  pandas    *)
(* and scikit-learn are taken by their documented behaviour: fitting on no *)
(* sample, splitting a single sample and fitting a single class raise      *)
(* ValueError; which rows train_test_split holds out is any choice of the  *)
(* right size.                                                             *)
(***************************************************************************)
NSlots == 3

JamSpeed == 50

NCE == "New Clear Water Bay Road Eastbound"

AllRoads == {KTW, KTE, NCE}

roads == <<KTW, KTE>>

Slots == 1..NSlots

\* a frame with at most one row per (Road, Slot), as groupby leaves it
Frames(slots) ==
    {{[Road |-> rs[1], Slot |-> rs[2], Average_Speed |-> f[rs]] :
          rs \in {x \in AllRoads \X slots : f[x] # 0}} :
     f \in [AllRoads \X slots -> {0, 40, 60}]}

SlotsOf(frame) == {r.Slot : r \in frame}

\* lines 30-32, 56: the target road's rows with their label
TargetData(target) ==
    {[Slot |-> r.Slot, traffic_jam |-> (r.Average_Speed <= JamSpeed)] :
         r \in {x \in road_grouped : x.Road = target}}

\* line 35
NearbyRoads(target) == {r \in road_grouped : r.Road # target}

\* lines 38-57: the pivot has one row per slot of the other roads, the
\* inner merge keeps the slots the target road has too
MergedSlots(target) ==
    SlotsOf(NearbyRoads(target)) \cap SlotsOf(TargetData(target))

\* lines 64-70: X has one row per merged slot, Y its label; the function
\* returns frames, empty or not, and never None
PrepareDataForRoad(target) ==
    [isNone |-> FALSE,
     X |-> MergedSlots(target),
     Y |-> [s \in MergedSlots(target) |->
               (CHOOSE r \in TargetData(target) : r.Slot = s).traffic_jam]]

\* ceil(0.2 * n), the size of the held-out part (test_size=0.2)
TestSize(n) == (n + 4) \div 5

\* lines 75-80 for a held-out set test: the exceptions of fit_transform,
\* train_test_split and LogisticRegression.fit
TrainRaises(X, Y, test) ==
    \/ X = {}
    \/ Cardinality(X) - TestSize(Cardinality(X)) = 0
    \/ Cardinality({Y[s] : s \in X \ test}) < 2

InitTrain ==
    /\ road_grouped \in Frames(Slots)
    /\ tpc = "load"
    /\ road_ix = 0
    /\ models = {}
    /\ train_called = {}
    /\ AggIdle /\ PredictIdle

\* lines 10-25: the CSV loads and is grouped
LoadCsv ==
    /\ tpc = "load"
    /\ tpc' = "loop"
    /\ road_ix' = 1
    /\ UNCHANGED <<road_grouped, models, train_called>>
    /\ UNCHANGED <<aggVars, predVars>>

\* lines 12-14: the CSV does not load, the script exits
LoadFails ==
    /\ tpc = "load"
    /\ tpc' = "exited"
    /\ UNCHANGED <<road_grouped, road_ix, models, train_called>>
    /\ UNCHANGED <<aggVars, predVars>>

\* lines 38-57 when no other road has a row: what pivot_table and merge do
\* with an empty frame is pandas' affair; besides the empty result taken
\* by TrainRoad, the call may end the script with an exception
PrepareRaises ==
    /\ tpc = "loop"
    /\ road_ix <= Len(roads)
    /\ NearbyRoads(roads[road_ix]) = {}
    /\ tpc' = "crashed"
    /\ UNCHANGED <<road_grouped, road_ix, models, train_called>>
    /\ UNCHANGED <<aggVars, predVars>>

\* lines 156-164, one turn of "for road in roads": prepare, the None test,
\* then train_and_evaluate_model or the skip message
TrainRoad ==
    /\ tpc = "loop"
    /\ road_ix <= Len(roads)
    /\ LET road == roads[road_ix]
           prep == PrepareDataForRoad(road)
       IN  IF ~prep.isNone
           THEN /\ train_called' = train_called \cup {road}
                /\ \E test \in {t \in SUBSET prep.X :
                                  Cardinality(t) =
                                      TestSize(Cardinality(prep.X))} :
                      IF TrainRaises(prep.X, prep.Y, test)
                      THEN /\ tpc' = "crashed"
                           /\ UNCHANGED <<models, road_ix>>
                      ELSE /\ models' = models \cup {road}
                           /\ road_ix' = road_ix + 1
                           /\ tpc' = IF road_ix = Len(roads) THEN "prompt"
                                     ELSE "loop"
           ELSE /\ road_ix' = road_ix + 1
                /\ tpc' = IF road_ix = Len(roads) THEN "prompt" ELSE "loop"
                /\ UNCHANGED <<models, train_called>>
    /\ UNCHANGED road_grouped
    /\ UNCHANGED <<aggVars, predVars>>

\* lines 167-171: the yes/no question
AskPredict ==
    /\ tpc = "prompt"
    /\ \E choice \in {"yes", "no"} :
          tpc' = IF choice # "yes" THEN "finished" ELSE "choose"
    /\ UNCHANGED <<road_grouped, road_ix, models, train_called>>
    /\ UNCHANGED <<aggVars, predVars>>

\* lines 173-189: the road is chosen; predict_new_data runs if it has a
\* model
ChooseRoad ==
    /\ tpc = "choose"
    /\ \E road_choice \in {"1", "2", "3"} :
          LET road == IF road_choice = "1" THEN KTW ELSE KTE
          IN  tpc' = IF road_choice \in {"1", "2"} /\ road \in models
                     THEN "predicting" ELSE "prompt"
    /\ UNCHANGED <<road_grouped, road_ix, models, train_called>>
    /\ UNCHANGED <<aggVars, predVars>>

\* predict_new_data returns to the question
PredictReturns ==
    /\ tpc = "predicting"
    /\ tpc' = "prompt"
    /\ UNCHANGED <<road_grouped, road_ix, models, train_called>>
    /\ UNCHANGED <<aggVars, predVars>>

NextTrain ==
    \/ LoadCsv
    \/ LoadFails
    \/ PrepareRaises
    \/ TrainRoad
    \/ AskPredict
    \/ ChooseRoad
    \/ PredictReturns

SpecTrain == InitTrain /\ [][NextTrain]_vars

(***************************************************************************)
(* C7.  A road that shares no slot with the other roads is skipped: the    *)
(* trainer is not called for it, nothing is stored for it, and the script  *)
(* does not end in an exception at it.  Stated for frames in which the     *)
(* other roads have rows, where the merge result is empty by definition.   *)
(***************************************************************************)
NoSharedRows(target) ==
    ~\E r \in road_grouped, q \in road_grouped :
        r.Road = target /\ q.Road # target /\ r.Slot = q.Slot

Handled(k) == k < road_ix \/ (k = road_ix /\ tpc = "crashed")

EmptyJoinSkipsTraining ==
    \A k \in 1..Len(roads) :
        (Handled(k) /\ NoSharedRows(roads[k])
                    /\ NearbyRoads(roads[k]) # {}) =>
            /\ roads[k] \notin train_called
            /\ roads[k] \notin models
            /\ tpc # "crashed"

(***************************************************************************)
(* temp_model_1.py: predict_new_data.  A feature name is the pair of its   *)
(* first three characters and the rest, so that startswith('is_') and      *)
(* replace('is_', '') are computed.  An answer to a feature prompt is a    *)
(* text, read by float(); a float is [kind, v] with kind num, nan or inf   *)
(* (v = 1 or -1 for the sign of an infinity).                              *)
(***************************************************************************)
MaxRetries == 2

weekdays ==
    <<"Monday", "Tuesday", "Wednesday", "Thursday", "Friday", "Saturday",
      "Sunday">>

Hour == <<"Hou", "r">>

FeatureLists ==
    {<<Hour, <<"Ave", "rage_Speed_Kwun Tong Road Eastbound">>,
       <<"is_", "Monday">>, <<"is_", "Sunday">>>>,
     <<Hour, <<"is_", "Friday">>>>}

\* feature.startswith('is_')
IsDummy(feature) == feature[1] = "is_"

\* input(...).strip().capitalize() on the answers of the model
WeekdayAnswers == {"monday", " Sunday ", "FRIDAY", "Funday", ""}

StripCapitalize(answer) ==
    CASE answer = "monday" -> "Monday"
      [] answer = " Sunday " -> "Sunday"
      [] answer = "FRIDAY" -> "Friday"
      [] answer = "Funday" -> "Funday"
      [] answer = "" -> ""

FeatureAnswers ==
    {<<"0">>, <<"7">>, <<"2", "3">>, <<"2", "4">>, <<"2", "5">>, <<"-", "1">>,
     <<"a", "b", "c">>, <<>>, <<"n", "a", "n">>, <<"i", "n", "f">>}

\* value < n and value > n for a float and an integer: every comparison
\* with nan is false
FloatLess(x, n) ==
    CASE x.kind = "nan" -> FALSE
      [] x.kind = "inf" -> x.v < 0
      [] OTHER -> x.v < n

FloatGreater(x, n) ==
    CASE x.kind = "nan" -> FALSE
      [] x.kind = "inf" -> x.v > 0
      [] OTHER -> x.v > n

\* line 125: value < 0 or value > 23
HourRefused(x) == FloatLess(x, 0) \/ FloatGreater(x, 23)

\* lines 116, 134-136: the dummies, in the order of feature_names
RECURSIVE Dummies(_, _)
Dummies(names, day) ==
    IF Len(names) = 0 THEN <<>>
    ELSE IF IsDummy(names[1])
        THEN <<[kind |-> "num", v |-> IF names[1][2] = day THEN 1 ELSE 0]>>
                 \o Dummies(Tail(names), day)
    ELSE Dummies(Tail(names), day)

InitPredict ==
    /\ feature_names \in FeatureLists
    /\ ppc = "weekday"
    /\ weekday = ""
    /\ feat_ix = 1
    /\ input_data = <<>>
    /\ rejected = <<>>
    /\ AggIdle /\ TrainIdle

\* lines 109-113: one answer to the weekday prompt
AskWeekday ==
    /\ ppc = "weekday"
    /\ \E answer \in WeekdayAnswers :
          IF InList(StripCapitalize(answer), weekdays)
          THEN /\ weekday' = StripCapitalize(answer)
               /\ ppc' = "features"
          ELSE UNCHANGED <<weekday, ppc>>
    /\ UNCHANGED <<feature_names, feat_ix, input_data, rejected>>
    /\ UNCHANGED <<aggVars, trainVars>>

\* lines 119-121: a weekday dummy is passed over
SkipDummy ==
    /\ ppc = "features"
    /\ feat_ix <= Len(feature_names)
    /\ IsDummy(feature_names[feat_ix])
    /\ feat_ix' = feat_ix + 1
    /\ UNCHANGED <<feature_names, ppc, weekday, input_data, rejected>>
    /\ UNCHANGED <<aggVars, trainVars>>

\* lines 122-131: one answer to the prompt of a feature: refused (no
\* number, or an Hour the test turns down) and asked again, or appended
AskFeature ==
    /\ ppc = "features"
    /\ feat_ix <= Len(feature_names)
    /\ ~IsDummy(feature_names[feat_ix])
    /\ \E answer \in FeatureAnswers :
          LET value == ParseFloat(answer)
          IN  IF value.kind = "error"
                 \/ (feature_names[feat_ix] = Hour /\ HourRefused(value))
              THEN /\ Len(rejected) < MaxRetries
                   /\ rejected' = Append(rejected, answer)
                   /\ UNCHANGED <<input_data, feat_ix>>
              ELSE /\ input_data' =
                         Append(input_data, [kind |-> value.kind, v |-> value.v])
                   /\ feat_ix' = feat_ix + 1
                   /\ rejected' = <<>>
    /\ UNCHANGED <<feature_names, ppc, weekday>>
    /\ UNCHANGED <<aggVars, trainVars>>

Finite(x) == x.kind = "num"

\* lines 134-147: the dummies are appended, the vector is scaled and the
\* prediction printed; scikit-learn turns down nan and infinity with a
\* ValueError, which ends the script
Predict ==
    /\ ppc = "features"
    /\ feat_ix > Len(feature_names)
    /\ input_data' = input_data \o Dummies(feature_names, weekday)
    /\ ppc' = IF \A k \in 1..Len(input_data) : Finite(input_data[k])
              THEN "done" ELSE "crashed"
    /\ UNCHANGED <<feature_names, weekday, feat_ix, rejected>>
    /\ UNCHANGED <<aggVars, trainVars>>

NextPredict ==
    \/ AskWeekday
    \/ SkipDummy
    \/ AskFeature
    \/ Predict

SpecPredict == InitPredict /\ [][NextPredict]_vars

(***************************************************************************)
(* C8.  An answer to the Hour prompt that is no number or lies outside     *)
(* [0,23] is never appended and the prompt repeats; one value is appended  *)
(* per non-weekday feature; the Hour in the vector is within [0,23].       *)
(***************************************************************************)
NonDummies(n) == {k \in 1..n : ~IsDummy(feature_names[k])}

\* the place in input_data of the value of feature k
PlaceOf(k) == Cardinality(NonDummies(k))

IsNumberIn(x, lo, hi) == x.kind = "num" /\ lo <= x.v /\ x.v <= hi

HourWithinRange ==
    /\ ppc = "features" =>
          Len(input_data) =
              Cardinality(NonDummies(IF feat_ix > Len(feature_names)
                                     THEN Len(feature_names)
                                     ELSE feat_ix - 1))
    /\ ppc \in {"done", "crashed"} => Len(input_data) = Len(feature_names)
    /\ \A k \in 1..Len(feature_names) :
          (feature_names[k] = Hour /\ PlaceOf(k) <= Len(input_data)
                /\ ppc # "weekday") =>
              IsNumberIn(input_data[PlaceOf(k)], 0, 23)
    /\ (ppc = "features" /\ feat_ix <= Len(feature_names)
            /\ feature_names[feat_ix] = Hour) =>
          \A j \in 1..Len(rejected) :
              ~IsNumberIn(ParseFloat(rejected[j]), 0, 23)
====
